---- MODULE Spec2Model ----
(***************************************************************************)
(* State-machine model of data_fetcher.py: the script that downloads one  *)
(* Mapbox satellite image per row of data/train.xlsx into images/train.   *)
(*                                                                         *)
(* One process runs the module top to bottom; pc is its position. The     *)
(* image directory (files, imageDir) and the input table outlive the      *)
(* process, everything else is reset when the script is started again.    *)
(* Strings that the script formats are sequences of pieces, numbers are   *)
(* formatted digit by digit; latitudes/longitudes are fixed-point tenths  *)
(* of a degree (476 is 47.6).                                              *)
(***************************************************************************)
EXTENDS Integers, Sequences, FiniteSets, TLC

\* ---------------------------------------------------------------- bounds
MaxLen == 3
MaxRuns == 2

\* ------------------------------------------------------- program constants
PROGRESS_INTERVAL == 50
DefaultZoom == 17
DefaultSize == 256
HTTP_OK == 200

IMAGE_DIR == <<"images", "/", "train">>
MAPBOX_BASE == "https://api.mapbox.com/styles/v1/mapbox/satellite-v9/static/"

\* --------------------------------------------------------- input universes
None == "None"
Tokens == {None, "", "pk.test"}

\* rows of data/train.xlsx (columns id, lat, long); ids may repeat in a table
Rows ==
  { [id |-> 1, lat |-> 476,  long |-> -1223],
    [id |-> 2, lat |-> -5,   long |-> 0],
    [id |-> 30, lat |-> 476, long |-> 476] }

Tables == UNION { [1..n -> Rows] : n \in 0..MaxLen }

\* the image the server sends with status 200, and the body of an error
Bodies == { <<1, 2>> }
ErrBody == <<9>>
Statuses == {HTTP_OK, 404}

\* arguments of direct calls of mapbox_url
Coords == {476, -1223, -5, 0, 1800}
Zooms == {DefaultZoom, 1}
Sizes == {DefaultSize, 64}

NoRow == [id |-> 0, lat |-> 0, long |-> 0]
NoArgs == [lat |-> 0, lon |-> 0, zoom |-> 0, size |-> 0]
NoResponse == [status |-> 0, content |-> <<>>]
EmptyDir == [p \in {} |-> <<>>]

VARIABLES
  pc,            \* position of the process in the script
  run,           \* how many times the script has been started
  MAPBOX_TOKEN,  \* l.32
  imageDir,      \* does images/train exist
  files,         \* images/train: path -> bytes of the file
  table,         \* content of data/train.xlsx
  df,            \* l.55
  total_images,  \* l.60
  downloaded,    \* l.76
  skipped,       \* l.77
  idx,           \* position of df.iterrows(), 0 before the loop
  row,           \* l.79-82 (pid, lat, lon)
  out_path,      \* l.84
  args,          \* parameters bound by the last call of mapbox_url
  url,           \* l.90
  response,      \* l.93
  exc,           \* exception being handled: "", "transport", "oserror"
  netCalls,      \* requests.get calls issued by this process
  progress,      \* progress lines printed (l.106): the downloaded values
  warnings,      \* failure lines printed (l.99, l.102)
  summary,       \* summary block printed (l.109-113), <<>> before
  hist,          \* per record reached by the loop: what happened to it
  before,        \* images/train as it was at the current record's l.86
  startFiles,    \* images/train as it was when this process started
  prev           \* how the previous process ended

vars == << pc, run, MAPBOX_TOKEN, imageDir, files, table, df, total_images,
           downloaded, skipped, idx, row, out_path, args, url, response, exc,
           netCalls, progress, warnings, summary, hist, before, startFiles,
           prev >>

\* ------------------------------------------------------------- formatting
Digit(d) ==
  CASE d = 0 -> "0" [] d = 1 -> "1" [] d = 2 -> "2" [] d = 3 -> "3"
    [] d = 4 -> "4" [] d = 5 -> "5" [] d = 6 -> "6" [] d = 7 -> "7"
    [] d = 8 -> "8" [] d = 9 -> "9"

RECURSIVE NatStr(_)
NatStr(n) ==
  IF n < 10 THEN << Digit(n) >> ELSE NatStr(n \div 10) \o << Digit(n % 10) >>

\* str(int), as an f-string formats an integer
IntStr(n) == IF n < 0 THEN <<"-">> \o NatStr(-n) ELSE NatStr(n)

\* str(float) of a coordinate given in tenths: 476 -> 47.6, -5 -> -0.5
FloatStr(t) ==
  LET a == IF t < 0 THEN -t ELSE t
  IN  (IF t < 0 THEN <<"-">> ELSE <<>>)
        \o NatStr(a \div 10) \o <<".">> \o << Digit(a % 10) >>

\* the coordinates the wrong way round: latitude first
mapbox_url_LatFirst(lat, lon, zoom, size) ==
  << MAPBOX_BASE >>
    \o FloatStr(lat) \o <<",">> \o FloatStr(lon) \o <<",">> \o IntStr(zoom)
    \o <<"/">> \o IntStr(size) \o <<"x">> \o IntStr(size)
    \o << "?access_token=", MAPBOX_TOKEN >>

\* l.68-73
mapbox_url(lat, lon, zoom, size) ==
  << MAPBOX_BASE >>
    \o FloatStr(lon) \o <<",">> \o FloatStr(lat) \o <<",">> \o IntStr(zoom)
    \o <<"/">> \o IntStr(size) \o <<"x">> \o IntStr(size)
    \o << "?access_token=", MAPBOX_TOKEN >>

\* l.84: IMAGE_DIR / f"{pid}.jpg"
OutPath(pid) == IMAGE_DIR \o <<"/">> \o IntStr(pid) \o <<".jpg">>

\* no skip check at all
Exists_Never(p) == FALSE

\* a skip check that takes only a complete image for an artifact
Exists_OnlyComplete(p) == p \in DOMAIN files /\ files[p] \in Bodies

\* l.86: out_path.exists()
Exists(p) == p \in DOMAIN files

\* "MAPBOX_TOKEN is None" in place of "not MAPBOX_TOKEN"
TokenMissing_NoneOnly(t) == t = None

\* l.33: not MAPBOX_TOKEN
TokenMissing(t) == t = None \/ t = ""

\* any status from 200 up taken for success
StatusOk_Any(r) == r.status >= HTTP_OK

\* l.94
StatusOk(r) == r.status = HTTP_OK

\* l.105
ProgressDue(d) == d % PROGRESS_INTERVAL = 0

\* bytes a broken-off write of body b can leave behind
Prefixes(b) == { SubSeq(b, 1, k) : k \in 0..(Len(b) - 1) }

SetLast(h, f, v) == [h EXCEPT ![Len(h)] = [h[Len(h)] EXCEPT ![f] = v]]

\* what is recorded of row r, the k-th, when the loop reaches it
Entry(k, r, result) ==
  [idx |-> k, id |-> r.id, existed |-> OutPath(r.id) \in DOMAIN files,
   built |-> 0, gets |-> 0, status |-> 0, opened |-> FALSE, result |-> result]

NoPrev == [ended |-> "none", failed |-> FALSE]

\* ------------------------------------------------------------------ Init
ProcessStart ==
  /\ pc = "start"
  /\ MAPBOX_TOKEN = None
  /\ df = <<>>
  /\ total_images = 0
  /\ downloaded = 0
  /\ skipped = 0
  /\ idx = 0
  /\ row = NoRow
  /\ out_path = <<>>
  /\ args = NoArgs
  /\ url = <<>>
  /\ response = NoResponse
  /\ exc = ""
  /\ netCalls = 0
  /\ progress = <<>>
  /\ warnings = 0
  /\ summary = <<>>
  /\ hist = <<>>
  /\ before = EmptyDir

Init ==
  /\ ProcessStart
  /\ run = 1
  /\ imageDir = FALSE
  /\ files = EmptyDir
  /\ startFiles = EmptyDir
  /\ table \in Tables
  /\ prev = NoPrev

Disk == << imageDir, files, table >>
Counters == << downloaded, skipped >>
Locals == << row, out_path, args, url, response, exc >>
Output == << progress, warnings, summary >>
Ghost == << before, startFiles >>

\* --------------------------------------------------------------- actions
\* l.30-32: load_dotenv(); MAPBOX_TOKEN = os.getenv("MAPBOX_TOKEN")
LoadEnv ==
  /\ pc = "start"
  /\ \E t \in Tokens : MAPBOX_TOKEN' = t
  /\ pc' = "token"
  /\ UNCHANGED << run, Disk, df, total_images, Counters, idx, Locals,
                  netCalls, Output, hist, prev, Ghost >>

\* l.33-34: raise RuntimeError
TokenAbort ==
  /\ pc = "token"
  /\ TokenMissing(MAPBOX_TOKEN)
  /\ pc' = "aborted"
  /\ UNCHANGED << run, MAPBOX_TOKEN, Disk, df, total_images, Counters, idx,
                  Locals, netCalls, Output, hist, prev, Ghost >>

\* l.33 (false branch) and l.50: IMAGE_DIR.mkdir(parents=True, exist_ok=True)
Mkdir ==
  /\ pc = "token"
  /\ ~TokenMissing(MAPBOX_TOKEN)
  /\ imageDir' = TRUE
  /\ pc' = "load"
  /\ UNCHANGED << run, MAPBOX_TOKEN, files, table, df, total_images, Counters,
                  idx, Locals, netCalls, Output, hist, prev, Ghost >>

\* l.55-77: read the table (USE_SAMPLE is False: l.58 is not executed),
\* count it, print the banner, zero the counters
LoadData ==
  /\ pc = "load"
  /\ df' = table
  /\ total_images' = Len(table)
  /\ downloaded' = 0
  /\ skipped' = 0
  /\ pc' = "iter"
  /\ UNCHANGED << run, MAPBOX_TOKEN, Disk, idx, Locals, netCalls, Output,
                  hist, prev, Ghost >>

\* l.55: pd.read_excel raises (file missing or unreadable)
LoadFail ==
  /\ pc = "load"
  /\ pc' = "aborted"
  /\ UNCHANGED << run, MAPBOX_TOKEN, Disk, df, total_images, Counters, idx,
                  Locals, netCalls, Output, hist, prev, Ghost >>

\* the skip branch without its continue: the record is fetched all the same
IterSkip_NoContinue ==
  /\ pc = "iter"
  /\ idx < Len(df)
  /\ LET r == df[idx + 1]
         p == OutPath(r.id)
     IN  /\ Exists(p)
         /\ row' = r
         /\ out_path' = p
         /\ skipped' = skipped + 1
         /\ hist' = Append(hist, Entry(idx + 1, r, "skipped"))
  /\ before' = files
  /\ idx' = idx + 1
  /\ pc' = "build"
  /\ UNCHANGED << run, MAPBOX_TOKEN, Disk, df, total_images, downloaded,
                  args, url, response, exc, netCalls, Output, prev, startFiles >>

\* l.79-88: next row, its artifact exists: count it and continue
IterSkip ==
  /\ pc = "iter"
  /\ idx < Len(df)
  /\ LET r == df[idx + 1]
         p == OutPath(r.id)
     IN  /\ Exists(p)
         /\ row' = r
         /\ out_path' = p
         /\ skipped' = skipped + 1
         /\ hist' = Append(hist, Entry(idx + 1, r, "skipped"))
  /\ before' = files
  /\ idx' = idx + 1
  /\ pc' = "iter"
  /\ UNCHANGED << run, MAPBOX_TOKEN, Disk, df, total_images, downloaded,
                  args, url, response, exc, netCalls, Output, prev, startFiles >>

\* l.79-86: next row, no artifact yet
IterFetch ==
  /\ pc = "iter"
  /\ idx < Len(df)
  /\ LET r == df[idx + 1]
         p == OutPath(r.id)
     IN  /\ ~Exists(p)
         /\ row' = r
         /\ out_path' = p
         /\ hist' = Append(hist, Entry(idx + 1, r, "pending"))
  /\ before' = files
  /\ idx' = idx + 1
  /\ pc' = "build"
  /\ UNCHANGED << run, MAPBOX_TOKEN, Disk, df, total_images, Counters,
                  args, url, response, exc, netCalls, Output, prev, startFiles >>

\* l.90: url = mapbox_url(lat, lon)
BuildUrl ==
  /\ pc = "build"
  /\ args' = [lat |-> row.lat, lon |-> row.long,
              zoom |-> DefaultZoom, size |-> DefaultSize]
  /\ url' = mapbox_url(row.lat, row.long, DefaultZoom, DefaultSize)
  /\ hist' = SetLast(hist, "built", hist[Len(hist)].built + 1)
  /\ pc' = "get"
  /\ UNCHANGED << run, MAPBOX_TOKEN, Disk, df, total_images, Counters, idx,
                  row, out_path, response, exc, netCalls, Output, prev, Ghost >>

\* l.93: requests.get(url, timeout=10) returns a response
GetResponse ==
  /\ pc = "get"
  /\ \E s \in Statuses :
       \E b \in (IF s = HTTP_OK THEN Bodies ELSE {ErrBody}) :
         /\ response' = [status |-> s, content |-> b]
         /\ hist' = SetLast(SetLast(hist, "gets", hist[Len(hist)].gets + 1),
                            "status", s)
  /\ netCalls' = netCalls + 1
  /\ pc' = "status"
  /\ UNCHANGED << run, MAPBOX_TOKEN, Disk, df, total_images, Counters, idx,
                  row, out_path, args, url, exc, Output, prev, Ghost >>

\* l.93: requests.get raises (timeout, connection error, malformed response)
GetRaise ==
  /\ pc = "get"
  /\ netCalls' = netCalls + 1
  /\ exc' = "transport"
  /\ hist' = SetLast(hist, "gets", hist[Len(hist)].gets + 1)
  /\ pc' = "except"
  /\ UNCHANGED << run, MAPBOX_TOKEN, Disk, df, total_images, Counters, idx,
                  row, out_path, args, url, response, Output, prev, Ghost >>

\* l.94: status 200
StatusGood ==
  /\ pc = "status"
  /\ StatusOk(response)
  /\ pc' = "open"
  /\ UNCHANGED << run, MAPBOX_TOKEN, Disk, df, total_images, Counters, idx,
                  Locals, netCalls, Output, hist, prev, Ghost >>

\* the failure branch counting the record as downloaded
StatusBad_CountsDownload ==
  /\ pc = "status"
  /\ ~StatusOk(response)
  /\ warnings' = warnings + 1
  /\ downloaded' = downloaded + 1
  /\ hist' = SetLast(hist, "result", "http")
  /\ pc' = "progress"
  /\ UNCHANGED << run, MAPBOX_TOKEN, Disk, df, total_images, skipped, idx,
                  Locals, netCalls, progress, summary, prev, Ghost >>

\* l.98-99: any other status: print the warning
StatusBad ==
  /\ pc = "status"
  /\ ~StatusOk(response)
  /\ warnings' = warnings + 1
  /\ hist' = SetLast(hist, "result", "http")
  /\ pc' = "progress"
  /\ UNCHANGED << run, MAPBOX_TOKEN, Disk, df, total_images, Counters, idx,
                  Locals, netCalls, progress, summary, prev, Ghost >>

\* l.95: open(out_path, "wb") creates the file, or truncates it
Open ==
  /\ pc = "open"
  /\ files' = [p \in DOMAIN files \cup {out_path} |->
                 IF p = out_path THEN <<>> ELSE files[p]]
  /\ hist' = SetLast(hist, "opened", TRUE)
  /\ pc' = "write"
  /\ UNCHANGED << run, MAPBOX_TOKEN, imageDir, table, df, total_images,
                  Counters, idx, Locals, netCalls, Output, prev, Ghost >>

\* l.95: open raises OSError; no file is created
OpenRaise ==
  /\ pc = "open"
  /\ exc' = "oserror"
  /\ pc' = "except"
  /\ UNCHANGED << run, MAPBOX_TOKEN, Disk, df, total_images, Counters, idx,
                  row, out_path, args, url, response, netCalls, Output, hist,
                  prev, Ghost >>

\* l.96-97: f.write(response.content), close, downloaded += 1
Write ==
  /\ pc = "write"
  /\ files' = [files EXCEPT ![out_path] = response.content]
  /\ downloaded' = downloaded + 1
  /\ hist' = SetLast(hist, "result", "downloaded")
  /\ pc' = "progress"
  /\ UNCHANGED << run, MAPBOX_TOKEN, imageDir, table, df, total_images,
                  skipped, idx, Locals, netCalls, Output, prev, Ghost >>

\* the write outside the try block: its OSError ends the process
WriteRaise_Uncaught ==
  /\ pc = "write"
  /\ \E part \in Prefixes(response.content) :
       files' = [files EXCEPT ![out_path] = part]
  /\ exc' = "oserror"
  /\ pc' = "aborted"
  /\ UNCHANGED << run, MAPBOX_TOKEN, imageDir, table, df, total_images,
                  Counters, idx, row, out_path, args, url, response, netCalls,
                  Output, hist, prev, Ghost >>

\* l.96: f.write raises OSError (disk full); what was written stays
WriteRaise ==
  /\ pc = "write"
  /\ \E part \in Prefixes(response.content) :
       files' = [files EXCEPT ![out_path] = part]
  /\ exc' = "oserror"
  /\ pc' = "except"
  /\ UNCHANGED << run, MAPBOX_TOKEN, imageDir, table, df, total_images,
                  Counters, idx, row, out_path, args, url, response, netCalls,
                  Output, hist, prev, Ghost >>

\* l.101-102: except Exception: print the error
Except ==
  /\ pc = "except"
  /\ warnings' = warnings + 1
  /\ hist' = SetLast(hist, "result", exc)
  /\ exc' = ""
  /\ pc' = "progress"
  /\ UNCHANGED << run, MAPBOX_TOKEN, Disk, df, total_images, Counters, idx,
                  row, out_path, args, url, response, netCalls, progress,
                  summary, prev, Ghost >>

\* l.105-106: the progress line is due
ProgressPrint ==
  /\ pc = "progress"
  /\ ProgressDue(downloaded)
  /\ progress' = Append(progress, downloaded)
  /\ pc' = "iter"
  /\ UNCHANGED << run, MAPBOX_TOKEN, Disk, df, total_images, Counters, idx,
                  Locals, netCalls, warnings, summary, hist, prev, Ghost >>

\* l.105: it is not
ProgressQuiet ==
  /\ pc = "progress"
  /\ ~ProgressDue(downloaded)
  /\ pc' = "iter"
  /\ UNCHANGED << run, MAPBOX_TOKEN, Disk, df, total_images, Counters, idx,
                  Locals, netCalls, Output, hist, prev, Ghost >>

\* l.79 exhausted, l.109-113: print the summary
Summary ==
  /\ pc = "iter"
  /\ idx = Len(df)
  /\ summary' = << total_images, downloaded, skipped >>
  /\ pc' = "done"
  /\ UNCHANGED << run, MAPBOX_TOKEN, Disk, df, total_images, Counters, idx,
                  Locals, netCalls, progress, warnings, hist, prev, Ghost >>

Running == pc \notin {"done", "aborted", "killed", "unit", "unit_done"}

\* the memory of a new process, and of one that is gone
Fresh ==
  /\ MAPBOX_TOKEN' = None
  /\ df' = <<>>
  /\ total_images' = 0
  /\ downloaded' = 0
  /\ skipped' = 0
  /\ idx' = 0
  /\ row' = NoRow
  /\ out_path' = <<>>
  /\ args' = NoArgs
  /\ url' = <<>>
  /\ response' = NoResponse
  /\ exc' = ""
  /\ netCalls' = 0
  /\ progress' = <<>>
  /\ warnings' = 0
  /\ summary' = <<>>
  /\ hist' = <<>>
  /\ before' = EmptyDir

\* the process is terminated from outside at any statement; its memory is gone
Kill ==
  /\ Running
  /\ pc' = "killed"
  /\ Fresh
  /\ UNCHANGED << run, Disk, prev, startFiles >>

\* ... in the middle of f.write (l.96): part of the body has reached the file
KillMidWrite ==
  /\ pc = "write"
  /\ \E part \in Prefixes(response.content) \ {<<>>} :
       files' = [files EXCEPT ![out_path] = part]
  /\ pc' = "killed"
  /\ Fresh
  /\ UNCHANGED << run, imageDir, table, prev, startFiles >>

\* the script is run again: a new process over the same disk
Restart ==
  /\ pc \in {"done", "aborted", "killed"}
  /\ run < MaxRuns
  /\ run' = run + 1
  /\ prev' = [ended |-> pc, failed |-> warnings > 0]
  /\ pc' = "start"
  /\ Fresh
  /\ startFiles' = files
  /\ UNCHANGED Disk

Next ==
  \/ LoadEnv \/ TokenAbort \/ Mkdir \/ LoadData \/ LoadFail
  \/ IterSkip \/ IterFetch \/ BuildUrl \/ GetResponse \/ GetRaise
  \/ StatusGood \/ StatusBad \/ Open \/ OpenRaise \/ Write \/ WriteRaise
  \/ Except \/ ProgressPrint \/ ProgressQuiet \/ Summary
  \/ Kill \/ KillMidWrite \/ Restart

Spec == Init /\ [][Next]_vars

\* One run of the script, left alone: nobody kills the process, and a
\* process that is running keeps executing its statements (WF).
Step ==
  \/ LoadEnv \/ TokenAbort \/ Mkdir \/ LoadData \/ LoadFail
  \/ IterSkip \/ IterFetch \/ BuildUrl \/ GetResponse \/ GetRaise
  \/ StatusGood \/ StatusBad \/ Open \/ OpenRaise \/ Write \/ WriteRaise
  \/ Except \/ ProgressPrint \/ ProgressQuiet \/ Summary

LiveSpec == Init /\ [][Step]_vars /\ WF_vars(Step)

\* ------------------------------------------- mapbox_url called on its own
UrlInit ==
  /\ pc = "unit"
  /\ MAPBOX_TOKEN \in Tokens \ {None, ""}
  /\ args \in [lat : Coords, lon : Coords, zoom : Zooms, size : Sizes]
  /\ df = <<>>
  /\ total_images = 0
  /\ downloaded = 0
  /\ skipped = 0
  /\ idx = 0
  /\ row = NoRow
  /\ out_path = <<>>
  /\ url = <<>>
  /\ response = NoResponse
  /\ exc = ""
  /\ netCalls = 0
  /\ progress = <<>>
  /\ warnings = 0
  /\ summary = <<>>
  /\ hist = <<>>
  /\ before = EmptyDir
  /\ run = 1
  /\ imageDir = FALSE
  /\ files = EmptyDir
  /\ startFiles = EmptyDir
  /\ table = <<>>
  /\ prev = NoPrev

\* mapbox_url(lat, lon, zoom, size)
UrlCall ==
  /\ pc = "unit"
  /\ url' = mapbox_url(args.lat, args.lon, args.zoom, args.size)
  /\ pc' = "unit_done"
  /\ UNCHANGED << run, MAPBOX_TOKEN, Disk, df, total_images, Counters, idx,
                  row, out_path, args, response, exc, netCalls, Output, hist,
                  prev, Ghost >>

\* mapbox_url(lat, lon): zoom and size take their defaults (l.68)
UrlCallDefault ==
  /\ pc = "unit"
  /\ args' = [args EXCEPT !.zoom = DefaultZoom, !.size = DefaultSize]
  /\ url' = mapbox_url(args.lat, args.lon, DefaultZoom, DefaultSize)
  /\ pc' = "unit_done"
  /\ UNCHANGED << run, MAPBOX_TOKEN, Disk, df, total_images, Counters, idx,
                  row, out_path, response, exc, netCalls, Output, hist,
                  prev, Ghost >>

UrlNext == UrlCall \/ UrlCallDefault

UrlSpec == UrlInit /\ [][UrlNext]_vars

\* ================================================================ claims
Contains(s, sub) ==
  \E k \in 0..(Len(s) - Len(sub)) : SubSeq(s, k + 1, k + Len(sub)) = sub

Count(res) == Cardinality({ k \in DOMAIN hist : hist[k].result = res })

Last == hist[Len(hist)]

Complete(p) == p \in DOMAIN files /\ files[p] \in Bodies

\* C1 as stated: whenever the script has run to its summary and is run again
\* over the same table with no file removed, the second run downloads
\* nothing and skips every record.
C1_SecondRunDownloadsNothing ==
  (pc = "done" /\ run > 1 /\ prev.ended = "done")
    => (downloaded = 0 /\ skipped = Len(table))

\* C1 amended: when the previous run reached its summary without a single
\* per-record failure, the next run over the same table issues no request,
\* downloads nothing and skips every record; its summary says so.
C1_SecondRunAfterCleanRun ==
  (pc = "done" /\ run > 1 /\ prev.ended = "done" /\ ~prev.failed)
    => /\ downloaded = 0
       /\ skipped = Len(table)
       /\ netCalls = 0
       /\ summary = << Len(table), 0, Len(table) >>
       /\ files = startFiles

C1_Witness ==
  /\ pc = "done" /\ run = 2 /\ prev.ended = "done" /\ ~prev.failed
  /\ Len(table) = 3 /\ skipped = 3 /\ downloaded = 0
  /\ Cardinality(DOMAIN files) = 3

\* C2: a record whose artifact file exists when the loop reaches it is
\* counted as skipped and, in that run, no URL is built and no GET is
\* issued for it; the skip counter counts exactly these records.
C2_SkipBeforeNetwork ==
  /\ \A k \in DOMAIN hist :
       hist[k].existed =>
         /\ hist[k].result = "skipped"
         /\ hist[k].built = 0
         /\ hist[k].gets = 0
         /\ ~hist[k].opened
  /\ skipped = Cardinality({ k \in DOMAIN hist : hist[k].existed })
  /\ (pc = "iter" /\ hist # <<>> /\ Last.existed)
       => (files = before /\ OutPath(Last.id) \in DOMAIN before)

C2_Witness ==
  /\ Len(hist) = 3
  /\ hist[1].existed /\ ~hist[2].existed /\ hist[3].existed
  /\ hist[2].gets = 1
  /\ netCalls = 1 /\ skipped = 2

\* C3: no per-record failure (non-OK status, transport exception, failure
\* while opening or writing the file) aborts the batch: records are taken
\* in table order, an abort happens only before the loop, and once the
\* loop is entered the run reaches its summary with every record processed.
C3_FailureIsolation ==
  /\ [](\A k \in DOMAIN hist : hist[k].idx = k /\ hist[k].id = df[k].id)
  /\ [](pc = "aborted" => (hist = <<>> /\ warnings = 0))
  /\ (pc \in {"iter", "build", "get", "status", "open", "write", "except",
              "progress"})
       ~> (pc = "done" /\ Len(hist) = Len(df) /\ idx = Len(df)
             /\ summary = << Len(df), downloaded, skipped >>)

C3_Witness ==
  /\ pc = "done"
  /\ Len(hist) = 3
  /\ hist[1].result = "oserror" /\ hist[2].result = "http"
  /\ hist[3].result = "transport"
  /\ warnings = 3
  /\ summary = << 3, 0, 0 >>

\* C4: when the request for a record fails (status other than 200, or the
\* GET raises), the directory is exactly as it was at that record's skip
\* check and holds no file at the record's path.
C4_NoArtifactOnFailedRequest ==
  (hist # <<>> /\ (Last.status \notin {0, HTTP_OK} \/ exc = "transport"
                     \/ Last.result \in {"http", "transport"}))
    => /\ files = before
       /\ OutPath(Last.id) \notin DOMAIN files
       /\ ~Last.opened

C4_Witness ==
  /\ pc = "progress"
  /\ Len(hist) = 2
  /\ hist[1].result = "transport" /\ hist[2].result = "http"
  /\ files = EmptyDir

\* C5 as stated: between records, the progress lines printed so far are
\* exactly one per positive multiple of the interval reached by the
\* downloaded counter (none while it is 0, none after a failed record).
C5_ProgressCadence ==
  pc \in {"iter", "done"}
    => progress = [ k \in 1..(downloaded \div PROGRESS_INTERVAL) |->
                      k * PROGRESS_INTERVAL ]

\* C6 as stated: a kill never leaves an incomplete file at an artifact
\* path, and the skip check never takes an incomplete file for a download.
C6_CrashSafeWrite ==
  /\ pc = "killed" => \A p \in DOMAIN files : files[p] \in Bodies
  /\ \A k \in DOMAIN hist :
       hist[k].result = "skipped" => files[OutPath(hist[k].id)] \in Bodies

\* C7: with MAPBOX_TOKEN unset or empty the process gets no further than
\* the credential check: it aborts there, having read no table, issued no
\* request, reached no record, changed no counter and touched no file.
C7_AbortOnMissingToken ==
  (pc \notin {"start", "killed"} /\ MAPBOX_TOKEN \in {None, ""})
    => /\ pc \in {"token", "aborted"}
       /\ netCalls = 0
       /\ df = <<>> /\ total_images = 0
       /\ idx = 0 /\ hist = <<>>
       /\ downloaded = 0 /\ skipped = 0
       /\ url = <<>>
       /\ files = startFiles

C7_Witness ==
  /\ pc = "aborted" /\ MAPBOX_TOKEN = ""
  /\ run = 2 /\ files # EmptyDir /\ table # <<>>

\* C8: mapbox_url(lat, lon, zoom, size) is the base path followed by
\* lon "," lat "," zoom "/" size "x" size "?access_token=" token, longitude
\* first; with the defaults, lat 47.6 and lon -122.3 give a URL containing
\* -122.3,47.6,17 and 256x256 and the token; the call changes nothing else.
C8_UrlLayout ==
  pc = "unit_done" =>
    /\ url = << MAPBOX_BASE >> \o FloatStr(args.lon) \o <<",">>
               \o FloatStr(args.lat) \o <<",">> \o IntStr(args.zoom)
               \o <<"/">> \o IntStr(args.size) \o <<"x">> \o IntStr(args.size)
               \o << "?access_token=", MAPBOX_TOKEN >>
    /\ (args = [lat |-> 476, lon |-> -1223, zoom |-> DefaultZoom,
                size |-> DefaultSize])
         => /\ Contains(url, << "-", "1", "2", "2", ".", "3", ",",
                              "4", "7", ".", "6", ",", "1", "7" >>)
            /\ Contains(url, << "2", "5", "6", "x", "2", "5", "6" >>)
            /\ Contains(url, << MAPBOX_TOKEN >>)
    /\ files = EmptyDir /\ imageDir = FALSE
    /\ downloaded = 0 /\ skipped = 0 /\ netCalls = 0

C8_Witness ==
  /\ pc = "unit_done"
  /\ args = [lat |-> 476, lon |-> -1223, zoom |-> 17, size |-> 256]
  /\ url = << MAPBOX_BASE, "-", "1", "2", "2", ".", "3", ",", "4", "7", ".",
              "6", ",", "1", "7", "/", "2", "5", "6", "x", "2", "5", "6",
              "?access_token=", "pk.test" >>

\* C9: the counters account for the records: skipped counts the records
\* whose file existed at the skip check, downloaded those whose request
\* returned 200 and whose body is in the file, a failed record is in
\* neither; downloaded + skipped <= records reached <= total, and the
\* summary reports total, downloaded and skipped.
C9_CounterAccounting ==
  /\ skipped = Count("skipped")
  /\ downloaded = Count("downloaded")
  /\ \A k \in DOMAIN hist :
       /\ hist[k].result = "skipped" <=> hist[k].existed
       /\ hist[k].result = "downloaded" =>
            /\ hist[k].status = HTTP_OK
            /\ hist[k].opened
            /\ Complete(OutPath(hist[k].id))
       /\ hist[k].status \notin {0, HTTP_OK} => hist[k].result \in {"pending", "http"}
  /\ warnings = Count("http") + Count("transport") + Count("oserror")
  /\ Len(hist) = idx
  /\ downloaded + skipped <= idx
  /\ idx <= Len(df)
  /\ pc \notin {"start", "token", "load", "aborted", "killed"}
       => total_images = Len(table)
  /\ pc = "done" => summary = << Len(table), Count("downloaded"), Count("skipped") >>

C9_Witness ==
  /\ pc = "done"
  /\ startFiles = EmptyDir
  /\ Len(hist) = 3
  /\ hist[1].result = "downloaded" /\ hist[2].status = 404
  /\ hist[3].result = "downloaded"
  /\ summary = << 3, 2, 0 >>

\* C10: no step removes an artifact file; a file that exists is never
\* opened again: its content changes only in the write that follows its
\* creation by the same record; files are created only at <id>.jpg of the
\* current record, by open, when no file is there.
C10_WriteOnce ==
  [][ /\ \A p \in DOMAIN files :
           /\ p \in DOMAIN files'
           /\ files'[p] # files[p]
                => (pc = "write" /\ p = out_path /\ p \notin DOMAIN before
                      /\ files[p] = <<>>)
      /\ \A p \in DOMAIN files' \ DOMAIN files :
           /\ pc = "open"
           /\ p = OutPath(row.id)
           /\ p = IMAGE_DIR \o <<"/">> \o IntStr(row.id) \o <<".jpg">>
    ]_vars

C10_Witness ==
  /\ run = 2 /\ pc = "done" /\ warnings > 0
  /\ \E p \in DOMAIN startFiles : startFiles[p] \notin Bodies /\ files[p] = startFiles[p]
  /\ \E p \in DOMAIN files : p \notin DOMAIN startFiles /\ files[p] \in Bodies

====
